---- MODULE Spec2Model ----
(***************************************************************************)
(* Model of seoul_scraper.py: the detail-page extractor scrape_details and *)
(* the pagination loop of the main script, with the web site, the HTTP     *)
(* session and the file system as the nondeterministic environment.        *)
(*                                                                         *)
(* Python strings are tuples of one-character strings, so that len(),      *)
(* slicing, strip(), startswith() and concatenation are computed as the    *)
(* code computes them.                                                     *)
(***************************************************************************)
EXTENDS Integers, Sequences, FiniteSets, TLC

\* ---------------------------------------------------------------------
\* Python values
\* ---------------------------------------------------------------------

\* Python's None: a one-element tuple whose element is not a character,
\* so it is distinct from every string, the empty string included.
None ==
    <<"None">>

\* The result of a find() that matched nothing.
NoTag ==
    [name |-> "None"]

\* Characters removed by str.strip().
Whitespace ==
    {" ", "\n", "\t"}

\* n copies of the character c.
Rep(c, n) ==
    [i \in 1..n |-> c]

\* str.startswith
StartsWith(s, prefix) ==
    /\ Len(s) >= Len(prefix)
    /\ SubSeq(s, 1, Len(prefix)) = prefix

\* str.endswith
EndsWith(s, suffix) ==
    /\ Len(s) >= Len(suffix)
    /\ SubSeq(s, Len(s) - Len(suffix) + 1, Len(s)) = suffix

\* sub in s
Contains(s, sub) ==
    \E i \in 0..(Len(s) - Len(sub)) : SubSeq(s, i + 1, i + Len(sub)) = sub

\* str.strip(): drop leading and trailing whitespace.
Strip(s) ==
    LET keep == {i \in 1..Len(s) : s[i] \notin Whitespace}
    IN  IF keep = {} THEN <<>>
        ELSE LET lo == CHOOSE i \in keep : \A j \in keep : i <= j
                 hi == CHOOSE i \in keep : \A j \in keep : i >= j
             IN  SubSeq(s, lo, hi)

\* s[:n]
Prefix(s, n) ==
    SubSeq(s, 1, IF Len(s) < n THEN Len(s) ELSE n)

RECURSIVE JoinStrings(_, _)
\* sep.join(strs)
JoinStrings(strs, sep) ==
    IF strs = <<>> THEN <<>>
    ELSE IF Len(strs) = 1 THEN strs[1]
    ELSE strs[1] \o sep \o JoinStrings(Tail(strs), sep)

\* ---------------------------------------------------------------------
\* String literals of the program
\* ---------------------------------------------------------------------

\* initial value of description
DESC_NOT_FOUND ==
    <<"D","e","s","c","r","i","p","t","i","o","n"," ","n","o","t"," ","f","o","u","n","d">>
\* initial value of transport
TRANSPORT_NOT_FOUND ==
    <<"T","r","a","n","s","p","o","r","t","a","t","i","o","n"," ","i","n","f","o"," ","n","o","t"," ","f","o","u","n","d">>
\* main content without a paragraph
MAIN_NO_P ==
    <<"M","a","i","n"," ","c","o","n","t","e","n","t"," ","f","o","u","n","d",","," ","b","u","t"," ","n","o"," ","<","p",">"," ","t","a","g",".">>
\* prefix of both heading diagnostics
FOUND_HEADING ==
    <<"F","o","u","n","d"," ","h","e","a","d","i","n","g"," ","'">>
\* heading found, sibling is not a content block
SIBLING_UNCLEAR ==
    <<"'",","," ","b","u","t"," ","n","e","x","t"," ","s","i","b","l","i","n","g"," ","s","t","r","u","c","t","u","r","e"," ","u","n","c","l","e","a","r",".">>
\* heading found, no sibling and no parent sibling
NO_SUBSEQUENT ==
    <<"'",","," ","b","u","t"," ","c","o","u","l","d","n","'","t"," ","f","i","n","d"," ","s","u","b","s","e","q","u","e","n","t"," ","c","o","n","t","e","n","t",".">>
\* keyword fallback
KEYWORDS_FOUND ==
    <<"F","o","u","n","d"," ","t","r","a","n","s","p","o","r","t"," ","k","e","y","w","o","r","d","s",","," ","b","u","t"," ","c","o","u","l","d","n","'","t"," ","i","s","o","l","a","t","e"," ","s","e","c","t","i","o","n",".">>
\* prefix of the RequestException diagnostic
ERROR_FETCHING ==
    <<"E","r","r","o","r"," ","f","e","t","c","h","i","n","g"," ","p","a","g","e",":"," ">>
\* prefix of the generic exception diagnostic
ERROR_PARSING ==
    <<"E","r","r","o","r"," ","p","a","r","s","i","n","g"," ","p","a","g","e",":"," ">>
\* text appended to a cut description
TRUNC_SUFFIX ==
    <<".",".","."," ","(","t","r","u","n","c","a","t","e","d",")">>
\* origin of the site
BASE_URL ==
    <<"h","t","t","p","s",":","/","/","e","n","g","l","i","s","h",".","v","i","s","i","t","s","e","o","u","l",".","n","e","t">>
\* path of the first list page
ATTRACTIONS_PATH ==
    <<"/","a","t","t","r","a","c","t","i","o","n","s">>
\* initial value of name
NAME_NOT_FOUND ==
    <<"N","a","m","e"," ","n","o","t"," ","f","o","u","n","d">>

\* ---------------------------------------------------------------------
\* Parsed documents (the HTML-parsing collaborator)
\* ---------------------------------------------------------------------

\* A tag is a record with its name and the strings below it, in document
\* order; each string carries the name of the tag that directly holds it.
TextNode(s) ==
    [tag |-> "text", s |-> s]

ScriptNode(s) ==
    [tag |-> "script", s |-> s]

Element(name, nodes) ==
    [name |-> name, nodes |-> nodes]

\* unwanted_tag.extract() for every script and style tag of the element
ExtractUnwanted(el) ==
    [el EXCEPT !.nodes = SelectSeq(@, LAMBDA n : n.tag \notin {"script", "style"})]

\* Tag.get_text(separator=sep, strip=True): every string stripped, the
\* empty ones dropped, the rest joined by sep.
get_text(el, sep) ==
    JoinStrings(SelectSeq([i \in 1..Len(el.nodes) |-> Strip(el.nodes[i].s)],
                          LAMBDA s : s # <<>>), sep)

\* ---------------------------------------------------------------------
\* scrape_details
\* ---------------------------------------------------------------------

\* Longest description kept whole.
TruncLimit ==
    300

\* Tag names accepted as a content block after the transport heading.
ContentTags ==
    {"div", "p", "ul", "section"}

\* ExtractDescription with description initialised to None instead of the
\* placeholder.
ExtractDescription_NoDefault(page) ==
    IF page.desc_area # NoTag
    THEN get_text(ExtractUnwanted(page.desc_area), <<"\n">>)
    ELSE IF page.main_content # NoTag
         THEN IF page.main_content.p # NoTag
              THEN get_text(page.main_content.p, <<>>)
              ELSE MAIN_NO_P
         ELSE None

\* Description fallback chain.
ExtractDescription(page) ==
    IF page.desc_area # NoTag
    THEN get_text(ExtractUnwanted(page.desc_area), <<"\n">>)
    ELSE IF page.main_content # NoTag
         THEN IF page.main_content.p # NoTag
              THEN get_text(page.main_content.p, <<>>)
              ELSE MAIN_NO_P
         ELSE DESC_NOT_FOUND

\* Transport fallback chain.
ExtractTransport(page) ==
    IF page.heading # NoTag
    THEN IF page.next_element # NoTag
         THEN IF page.next_element.name \in ContentTags
              THEN get_text(page.next_element, <<"\n">>)
              ELSE FOUND_HEADING \o Strip(page.heading.string) \o SIBLING_UNCLEAR
         ELSE IF page.parent_next # NoTag
              THEN get_text(page.parent_next, <<"\n">>)
              ELSE FOUND_HEADING \o Strip(page.heading.string) \o NO_SUBSEQUENT
    ELSE IF page.keywords
         THEN KEYWORDS_FOUND
         ELSE TRANSPORT_NOT_FOUND

\* ExtractFields with the generic handler catching the RequestException.
ExtractFields_WrongHandler(page) ==
    IF page.fetch = "error" \/ page.parse = "error"
    THEN [description |-> ERROR_PARSING \o page.err,
          transport   |-> ERROR_PARSING \o page.err]
    ELSE [description |-> ExtractDescription(page),
          transport   |-> ExtractTransport(page)]

\* The two fields as they stand when the try statement is left.
ExtractFields(page) ==
    IF page.fetch = "error"
    THEN [description |-> ERROR_FETCHING \o page.err,
          transport   |-> ERROR_FETCHING \o page.err]
    ELSE IF page.parse = "error"
         THEN [description |-> ERROR_PARSING \o page.err,
               transport   |-> ERROR_PARSING \o page.err]
         ELSE [description |-> ExtractDescription(page),
               transport   |-> ExtractTransport(page)]

\* Truncate with >= for >.
Truncate_OffByOne(description) ==
    IF Len(description) >= TruncLimit
    THEN Strip(Prefix(description, TruncLimit)) \o TRUNC_SUFFIX
    ELSE description

\* The cut applied to a long description.
Truncate(description) ==
    IF Len(description) > TruncLimit
    THEN Strip(Prefix(description, TruncLimit)) \o TRUNC_SUFFIX
    ELSE description

\* scrape_details(detail_url, session), as a function of what the session
\* and the parser return for detail_url.
scrape_details(page) ==
    LET fields == ExtractFields(page)
    IN  [description |-> Strip(Truncate(fields.description)),
         transport   |-> Strip(fields.transport)]

\* ---------------------------------------------------------------------
\* Detail pages offered by the environment
\* ---------------------------------------------------------------------

\* Longest run of whitespace inside a generated text.
MaxGap ==
    2

\* Longest tail after the whitespace run of a generated text.
MaxTail ==
    2

\* Texts of lengths around TruncLimit, with whitespace where the cut falls.
Texts ==
    { Rep("x", a) \o Rep(" ", b) \o Rep("y", c) :
        a \in {1, TruncLimit - 2, TruncLimit - 1, TruncLimit},
        b \in 0..MaxGap, c \in 0..MaxTail }

\* A page that was fetched and parsed and on which no heuristic matches.
PlainPage ==
    [fetch |-> "ok", parse |-> "ok", err |-> <<>>,
     desc_area |-> NoTag, main_content |-> NoTag,
     heading |-> NoTag, next_element |-> NoTag, parent_next |-> NoTag,
     keywords |-> FALSE]

Heading(s) ==
    [name |-> "h3", string |-> s]

Word ==
    <<"B", "u", "s">>

DescPages ==
    { [PlainPage EXCEPT !.desc_area = Element("div", <<TextNode(t)>>)] : t \in Texts }
    \cup
    { [PlainPage EXCEPT !.desc_area =
          Element("div", <<ScriptNode(Word), TextNode(t), TextNode(<<" ">>), TextNode(Word)>>)] :
        t \in Texts }
    \cup
    { [PlainPage EXCEPT !.main_content = [name |-> "main", p |-> NoTag]],
      [PlainPage EXCEPT !.main_content =
          [name |-> "main", p |-> Element("p", <<TextNode(<<" ">> \o Word), TextNode(Word)>>)]] }

TransportPages ==
    { [PlainPage EXCEPT !.keywords = TRUE] }
    \cup
    { [PlainPage EXCEPT !.heading = Heading(<<" ">> \o Word),
                        !.next_element = Element(n, <<TextNode(Word), TextNode(Word)>>)] :
        n \in {"div", "p", "ul", "section", "span", "table"} }
    \cup
    { [PlainPage EXCEPT !.heading = Heading(Word), !.parent_next = pn] :
        pn \in {NoTag, Element("div", <<TextNode(Word)>>), Element("span", <<>>)} }

\* Messages of the exceptions raised: texts, and the empty message of an
\* exception raised without arguments.
Messages ==
    Texts \cup {<<>>}

ErrorPages ==
    { [PlainPage EXCEPT !.fetch = "error", !.err = t] : t \in Messages }
    \cup
    { [PlainPage EXCEPT !.parse = "error", !.err = t] : t \in Messages }

DetailPages ==
    {PlainPage} \cup DescPages \cup TransportPages \cup ErrorPages

\* ---------------------------------------------------------------------
\* URLs (urllib.parse.urljoin against BASE_URL)
\* ---------------------------------------------------------------------

\* Characters of a URL scheme (the lower-case ones suffice here).
SchemeChars ==
    {"a", "b", "c", "d", "e", "f", "g", "h", "i", "j", "k", "l", "m",
     "n", "o", "p", "q", "r", "s", "t", "u", "v", "w", "x", "y", "z",
     "+", "-", "."}

\* Index of the first character of s that is in cs, Len(s) + 1 if none.
IndexOf(s, cs) ==
    LET hits == {i \in 1..Len(s) : s[i] \in cs}
    IN  IF hits = {} THEN Len(s) + 1
        ELSE CHOOSE i \in hits : \A j \in hits : i <= j

\* s cut before position i.
SplitAt(s, i) ==
    [head |-> SubSeq(s, 1, i - 1), rest |-> SubSeq(s, i, Len(s))]

\* The scheme of a URL (empty if it has none) and what follows its colon.
SplitScheme(url) ==
    LET colon == IndexOf(url, {":"})
    IN  IF /\ colon > 1
           /\ colon <= Len(url)
           /\ \A i \in 1..(colon - 1) : url[i] \in SchemeChars
        THEN [head |-> SubSeq(url, 1, colon - 1),
              rest |-> SubSeq(url, colon + 1, Len(url))]
        ELSE [head |-> <<>>, rest |-> url]

\* The network location after "//" (empty if there is none) and what
\* follows it.
SplitNetloc(rest) ==
    IF StartsWith(rest, <<"/", "/">>)
    THEN SplitAt(SubSeq(rest, 3, Len(rest)),
                 IndexOf(SubSeq(rest, 3, Len(rest)), {"/", "?", "#"}))
    ELSE [head |-> <<>>, rest |-> rest]

\* The path, and the query and fragment kept together.
SplitPath(local) ==
    SplitAt(local, IndexOf(local, {"?", "#"}))

\* urlsplit: scheme, network location, path, and the query and fragment
\* kept together as tail.
Urlsplit(url) ==
    [scheme |-> SplitScheme(url).head,
     netloc |-> SplitNetloc(SplitScheme(url).rest).head,
     path   |-> SplitPath(SplitNetloc(SplitScheme(url).rest).rest).head,
     tail   |-> SplitPath(SplitNetloc(SplitScheme(url).rest).rest).rest]

\* urlsplit raises ValueError("Invalid IPv6 URL") on unbalanced brackets in
\* the network location.
UrljoinRaises(url) ==
    LET netloc == SplitNetloc(SplitScheme(url).rest).head
    IN  (\E i \in 1..Len(netloc) : netloc[i] = "[")
            # (\E i \in 1..Len(netloc) : netloc[i] = "]")

\* urljoin(base, url) for a base without path, query or fragment, and a
\* url without dot segments.
Urljoin(base, url) ==
    IF url = <<>> THEN base
    ELSE LET b == Urlsplit(base)
             u == Urlsplit(url)
             origin == b.scheme \o <<":", "/", "/">> \o b.netloc
         IN  IF u.scheme # <<>> /\ u.scheme # b.scheme THEN url
             ELSE IF u.netloc # <<>>
                  THEN b.scheme \o <<":", "/", "/">> \o u.netloc \o u.path \o u.tail
             ELSE IF u.path = <<>> THEN origin \o b.path \o u.tail
             ELSE IF u.path[1] = "/" THEN origin \o u.path \o u.tail
             ELSE origin \o <<"/">> \o u.path \o u.tail

\* START_URL = urljoin(BASE_URL, "/attractions")
START_URL ==
    Urljoin(BASE_URL, ATTRACTIONS_PATH)

\* ---------------------------------------------------------------------
\* List pages offered by the environment
\* ---------------------------------------------------------------------

\* Most attraction items on one list page.
MaxItems ==
    2

\* An anchor tag; href is None when the tag has no href attribute.
Anchor(href) ==
    [name |-> "a", href |-> href]

\* tag and tag.has_attr('href')
HasHref(tag) ==
    IF tag = NoTag THEN FALSE ELSE tag.href # None

\* href values of the "Next" anchors: back to the first page, on to a
\* second page, and one that urljoin rejects.
NextHrefs ==
    { ATTRACTIONS_PATH, <<"/", "p", "2">>, <<"/", "/", "[">> }

\* What a search for the "Next" anchor can return.
NextTags ==
    {NoTag, Anchor(None)} \cup { Anchor(h) : h \in NextHrefs }

\* A parsed list page: the URL it was fetched from, the number of
\* attraction items found on it, the anchor the pagination search of the
\* try block finds (next_tag) and the anchor the search of the exception
\* handler finds (any_next).
ListDocs(url) ==
    { [url |-> url, n_items |-> n, next_tag |-> t, any_next |-> a] :
        n \in 0..MaxItems, t \in NextTags, a \in NextTags }

\* The name tag's text and the href of the first anchor with an href of an
\* attraction item; None where the item has no such tag.
ListItems ==
    { [name_tag |-> <<" ", "A">>, href |-> <<"/", "a">>],
      [name_tag |-> None,         href |-> None],
      [name_tag |-> <<"B">>,      href |-> <<"h","t","t","p",":","/","/","o",".","k","/","x">>],
      [name_tag |-> <<"C">>,      href |-> <<"/","/","o",".","k","/","x">>],
      [name_tag |-> <<"D">>,      href |-> <<"/", "/", "[">>] }

\* Detail pages the site serves during a crawl: one that is extracted and
\* one whose fetch fails.
CrawlDetailPages ==
    { [PlainPage EXCEPT !.desc_area = Element("div", <<TextNode(<<"o", "k">>)>>)],
      [PlainPage EXCEPT !.fetch = "error", !.err = <<"t", "o">>] }

\* Every href the site uses.
Hrefs ==
    NextHrefs \cup { item.href : item \in { i \in ListItems : i.href # None } }

\* urljoin(BASE_URL, href), tabulated over the hrefs of the site.
JoinBase ==
    [h \in Hrefs |-> Urljoin(BASE_URL, h)]

\* The hrefs on which urljoin raises ValueError.
BadHrefs ==
    { h \in Hrefs : UrljoinRaises(h) }

\* scrape_details, tabulated over the detail pages of the crawl.
CrawlDetails ==
    [p \in CrawlDetailPages |-> scrape_details(p)]

\* No document has been parsed yet: the name soup is unbound.
NoSoup ==
    [url |-> None]

\* No result yet.
NoResult ==
    [description |-> None, transport |-> None]

\* The output file does not exist.
NoFile ==
    [state |-> "absent"]

VARIABLES
    current_url,          \* URL of the list page to fetch, or None
    processed_urls,       \* list pages already visited
    page_count,           \* number of list pages visited
    all_attraction_data,  \* the records collected so far
    soup,                 \* the most recently parsed list page
    item_idx,             \* position of the for loop in attraction_items
    pc,                   \* position of the script
    json_file,            \* seoul_attractions.json
    detail_in,            \* the detail page scrape_details last received
    detail_out,           \* what scrape_details last returned
    list_fetches,         \* history: URLs of the list pages requested
    detail_fetches,       \* history: URLs of the detail pages requested
    pauses,               \* history: number of time.sleep calls
    last_item,            \* history: what happened to the item just handled
    url_from,             \* history: which search produced current_url
    stop_reason,          \* history: why the pagination loop ended
    save_attempts         \* history: number of times the file was opened

vars ==
    <<current_url, processed_urls, page_count, all_attraction_data, soup,
      item_idx, pc, json_file, detail_in, detail_out, list_fetches,
      detail_fetches, pauses, last_item, url_from, stop_reason, save_attempts>>

crawl_vars ==
    <<current_url, processed_urls, page_count, all_attraction_data, soup,
      item_idx, pc, json_file, list_fetches, detail_fetches, pauses,
      last_item, url_from, stop_reason, save_attempts>>

history_vars ==
    <<list_fetches, detail_fetches, pauses, last_item, url_from,
      stop_reason, save_attempts>>

\* The script's globals before the while loop.
CrawlInit ==
    /\ current_url = START_URL
    /\ processed_urls = {}
    /\ page_count = 0
    /\ all_attraction_data = <<>>
    /\ soup = NoSoup
    /\ item_idx = 0
    /\ pc = "loop"
    /\ json_file = NoFile
    /\ list_fetches = <<>>
    /\ detail_fetches = <<>>
    /\ pauses = 0
    /\ last_item = "none"
    /\ url_from = "start"
    /\ stop_reason = "none"
    /\ save_attempts = 0

Init ==
    /\ CrawlInit
    /\ detail_in = PlainPage
    /\ detail_out = NoResult

\* ---------------------------------------------------------------------
\* The pagination loop
\* ---------------------------------------------------------------------

\* while current_url: the condition is false.
LoopExit ==
    /\ pc = "loop"
    /\ current_url = None
    /\ pc' = "save"
    /\ UNCHANGED <<current_url, processed_urls, page_count, all_attraction_data,
                   soup, item_idx, json_file, detail_in, detail_out, history_vars>>

\* StopVisited with continue for break: the iteration starts over.
StopVisited_Continue ==
    /\ pc = "loop"
    /\ current_url # None
    /\ current_url \in processed_urls
    /\ UNCHANGED vars

\* if current_url in processed_urls: break
StopVisited ==
    /\ pc = "loop"
    /\ current_url # None
    /\ current_url \in processed_urls
    /\ pc' = "save"
    /\ stop_reason' = "visited"
    /\ UNCHANGED <<current_url, processed_urls, page_count, all_attraction_data,
                   soup, item_idx, json_file, detail_in, detail_out, list_fetches,
                   detail_fetches, pauses, last_item, url_from, save_attempts>>

\* AddProcessed that forgets the URL.
AddProcessed_Forget(urls, url) ==
    urls

\* processed_urls.add(current_url)
AddProcessed(urls, url) ==
    urls \cup {url}

\* The start of an iteration up to the request for the list page.
BeginPage ==
    /\ pc = "loop"
    /\ current_url # None
    /\ current_url \notin processed_urls
    /\ processed_urls' = AddProcessed(processed_urls, current_url)
    /\ page_count' = page_count + 1
    /\ list_fetches' = Append(list_fetches, current_url)

\* OnRequestException with the generic handler catching the exception.
OnRequestException_Continue ==
    /\ pc' = "handler"
    /\ stop_reason' = "fetch_error"
    /\ UNCHANGED <<current_url, soup, item_idx>>

\* except requests.exceptions.RequestException: break
OnRequestException ==
    /\ pc' = "save"
    /\ stop_reason' = "fetch_error"
    /\ UNCHANGED <<current_url, soup, item_idx>>

\* session.get or raise_for_status raises a RequestException.
FetchListFail ==
    /\ BeginPage
    /\ OnRequestException
    /\ UNCHANGED <<all_attraction_data, json_file, detail_in, detail_out,
                   detail_fetches, pauses, last_item, url_from, save_attempts>>

\* The response arrives, but reading or parsing it raises another
\* exception: soup is not assigned.
FetchListRaise ==
    /\ BeginPage
    /\ pc' = "handler"
    /\ UNCHANGED <<current_url, all_attraction_data, soup, item_idx, json_file,
                   detail_in, detail_out, detail_fetches, pauses, last_item,
                   url_from, stop_reason, save_attempts>>

\* The list page is fetched and parsed, and its items are located.
FetchListOk ==
    /\ BeginPage
    /\ \E doc \in ListDocs(current_url) :
          /\ soup' = doc
          /\ IF doc.n_items = 0
             THEN pc' = "find_next" /\ item_idx' = 0
             ELSE pc' = "items" /\ item_idx' = 1
    /\ UNCHANGED <<current_url, all_attraction_data, json_file, detail_in,
                   detail_out, detail_fetches, pauses, last_item, url_from,
                   stop_reason, save_attempts>>

\* name of an item
ItemName(item) ==
    IF item.name_tag # None THEN Strip(item.name_tag) ELSE NAME_NOT_FOUND

\* link of an item whose href urljoin accepts
ItemLink(item) ==
    IF item.href # None THEN JoinBase[item.href] ELSE None

\* LinkIsValid without the same-site test.
LinkIsValid_AnyLink(link) ==
    /\ link # None
    /\ link # <<>>

\* if link and link.startswith(BASE_URL)
LinkIsValid(link) ==
    /\ link # None
    /\ link # <<>>
    /\ StartsWith(link, BASE_URL)

\* The record stored for an item.
Record(item, details) ==
    [page        |-> page_count,
     name        |-> ItemName(item),
     link        |-> ItemLink(item),
     description |-> details.description,
     transport   |-> details.transport]

\* One item with a same-site link: its detail page is scraped and the
\* record is appended.
ProcessItemFetch ==
    /\ pc = "items"
    /\ \E item \in ListItems, page \in CrawlDetailPages :
          /\ item.href # None => item.href \notin BadHrefs
          /\ LinkIsValid(ItemLink(item))
          /\ detail_fetches' = Append(detail_fetches, ItemLink(item))
          /\ detail_in' = page
          /\ detail_out' = CrawlDetails[page]
          /\ all_attraction_data' =
                Append(all_attraction_data, Record(item, CrawlDetails[page]))
    /\ last_item' = "fetched"
    /\ pc' = "sleep"
    /\ UNCHANGED <<current_url, processed_urls, page_count, soup, item_idx,
                   json_file, list_fetches, pauses, url_from, stop_reason,
                   save_attempts>>

\* ProcessItemSkip with the pause inside the branch that scrapes: a
\* skipped item is followed at once by the next one.
ProcessItemSkip_NoPause ==
    /\ pc = "items"
    /\ \E item \in ListItems :
          /\ item.href # None => item.href \notin BadHrefs
          /\ ~LinkIsValid(ItemLink(item))
          /\ last_item' = IF ItemLink(item) # None /\ ItemLink(item) # <<>>
                          THEN "skipped_external"
                          ELSE "skipped_no_link"
    /\ IF item_idx < soup.n_items
       THEN pc' = "items" /\ item_idx' = item_idx + 1
       ELSE pc' = "find_next" /\ item_idx' = 0
    /\ UNCHANGED <<current_url, processed_urls, page_count, all_attraction_data,
                   soup, json_file, detail_in, detail_out, list_fetches,
                   detail_fetches, pauses, url_from, stop_reason, save_attempts>>

\* One item without a link or with a link to another site: nothing is
\* fetched and nothing is stored.
ProcessItemSkip ==
    /\ pc = "items"
    /\ \E item \in ListItems :
          /\ item.href # None => item.href \notin BadHrefs
          /\ ~LinkIsValid(ItemLink(item))
          /\ last_item' = IF ItemLink(item) # None /\ ItemLink(item) # <<>>
                          THEN "skipped_external"
                          ELSE "skipped_no_link"
    /\ pc' = "sleep"
    /\ UNCHANGED <<current_url, processed_urls, page_count, all_attraction_data,
                   soup, item_idx, json_file, detail_in, detail_out, list_fetches,
                   detail_fetches, pauses, url_from, stop_reason, save_attempts>>

\* One item whose href makes urljoin raise ValueError: control passes to
\* the generic exception handler of the loop.
ProcessItemRaise ==
    /\ pc = "items"
    /\ \E item \in ListItems :
          /\ item.href # None
          /\ item.href \in BadHrefs
    /\ pc' = "handler"
    /\ UNCHANGED <<current_url, processed_urls, page_count, all_attraction_data,
                   soup, item_idx, json_file, detail_in, detail_out, history_vars>>

\* time.sleep(1.5) at the end of the for body, then the next item or the
\* end of the for loop.
PoliteDelay ==
    /\ pc = "sleep"
    /\ pauses' = pauses + 1
    /\ IF item_idx < soup.n_items
       THEN pc' = "items" /\ item_idx' = item_idx + 1
       ELSE pc' = "find_next" /\ item_idx' = 0
    /\ UNCHANGED <<current_url, processed_urls, page_count, all_attraction_data,
                   soup, json_file, detail_in, detail_out, list_fetches,
                   detail_fetches, last_item, url_from, stop_reason, save_attempts>>

\* The pagination search found an anchor with an href that urljoin accepts.
FindNextFound ==
    /\ pc = "find_next"
    /\ HasHref(soup.next_tag)
    /\ soup.next_tag.href \notin BadHrefs
    /\ current_url' = JoinBase[soup.next_tag.href]
    /\ url_from' = "next"
    /\ pc' = "loop"
    /\ UNCHANGED <<processed_urls, page_count, all_attraction_data, soup, item_idx,
                   json_file, detail_in, detail_out, list_fetches, detail_fetches,
                   pauses, last_item, stop_reason, save_attempts>>

\* No anchor, or an anchor without href: current_url = None.
FindNextNone ==
    /\ pc = "find_next"
    /\ ~HasHref(soup.next_tag)
    /\ current_url' = None
    /\ stop_reason' = "no_next"
    /\ pc' = "loop"
    /\ UNCHANGED <<processed_urls, page_count, all_attraction_data, soup, item_idx,
                   json_file, detail_in, detail_out, list_fetches, detail_fetches,
                   pauses, last_item, url_from, save_attempts>>

\* The anchor's href makes urljoin raise ValueError.
FindNextRaise ==
    /\ pc = "find_next"
    /\ HasHref(soup.next_tag)
    /\ soup.next_tag.href \in BadHrefs
    /\ pc' = "handler"
    /\ UNCHANGED <<current_url, processed_urls, page_count, all_attraction_data,
                   soup, item_idx, json_file, detail_in, detail_out, history_vars>>

\* except Exception: the simplified search on whatever soup is bound to.
\* An unbound soup raises NameError and a rejected href raises ValueError;
\* the bare except turns both into current_url = None.
HandleException ==
    /\ pc = "handler"
    /\ IF /\ soup # NoSoup
          /\ HasHref(soup.any_next)
          /\ soup.any_next.href \notin BadHrefs
       THEN /\ current_url' = JoinBase[soup.any_next.href]
            /\ url_from' = "handler"
            /\ UNCHANGED stop_reason
       ELSE /\ current_url' = None
            /\ stop_reason' = "search_failed"
            /\ UNCHANGED url_from
    /\ pc' = "loop"
    /\ item_idx' = 0
    /\ UNCHANGED <<processed_urls, page_count, all_attraction_data, soup,
                   json_file, detail_in, detail_out, list_fetches, detail_fetches,
                   pauses, last_item, save_attempts>>

\* ---------------------------------------------------------------------
\* Saving the data
\* ---------------------------------------------------------------------

\* ShouldSave without the test.
ShouldSave_Always(data) ==
    TRUE

\* if all_attraction_data:
ShouldSave(data) ==
    data # <<>>

\* open and json.dump succeed: the file holds every record.
SaveJson ==
    /\ pc = "save"
    /\ ShouldSave(all_attraction_data)
    /\ save_attempts' = save_attempts + 1
    /\ json_file' = [state |-> "written", records |-> Len(all_attraction_data)]
    /\ pc' = "done"
    /\ UNCHANGED <<current_url, processed_urls, page_count, all_attraction_data,
                   soup, item_idx, detail_in, detail_out, list_fetches,
                   detail_fetches, pauses, last_item, url_from, stop_reason>>

\* open or json.dump raises: the error is printed; the file is missing or
\* holds part of the data.
SaveFail ==
    /\ pc = "save"
    /\ ShouldSave(all_attraction_data)
    /\ save_attempts' = save_attempts + 1
    /\ json_file' \in {NoFile, [state |-> "partial"]}
    /\ pc' = "done"
    /\ UNCHANGED <<current_url, processed_urls, page_count, all_attraction_data,
                   soup, item_idx, detail_in, detail_out, list_fetches,
                   detail_fetches, pauses, last_item, url_from, stop_reason>>

\* else: print("No data collected to save.")
SaveNothing ==
    /\ pc = "save"
    /\ ~ShouldSave(all_attraction_data)
    /\ pc' = "done"
    /\ UNCHANGED <<current_url, processed_urls, page_count, all_attraction_data,
                   soup, item_idx, json_file, detail_in, detail_out, history_vars>>

Next ==
    \/ LoopExit
    \/ StopVisited
    \/ FetchListFail
    \/ FetchListRaise
    \/ FetchListOk
    \/ ProcessItemFetch
    \/ ProcessItemSkip
    \/ ProcessItemRaise
    \/ PoliteDelay
    \/ FindNextFound
    \/ FindNextNone
    \/ FindNextRaise
    \/ HandleException
    \/ SaveJson
    \/ SaveFail
    \/ SaveNothing

Spec ==
    Init /\ [][Next]_vars

\* The script runs on as long as it has a next step.
FairSpec ==
    Spec /\ WF_vars(Next)

\* ---------------------------------------------------------------------
\* scrape_details on its own
\* ---------------------------------------------------------------------

InitDetails ==
    /\ CrawlInit
    /\ detail_in \in DetailPages
    /\ detail_out = NoResult

\* One call of scrape_details.
ScrapeOne ==
    /\ detail_out = NoResult
    /\ detail_out' = scrape_details(detail_in)
    /\ UNCHANGED <<detail_in, crawl_vars>>

NextDetails ==
    ScrapeOne

SpecDetails ==
    InitDetails /\ [][NextDetails]_vars


\* ---------------------------------------------------------------------
\* Properties
\* ---------------------------------------------------------------------

\* "(truncated)"
TRUNC_MARKER ==
    <<"(","t","r","u","n","c","a","t","e","d",")">>

\* "Error fetching page:"
ERROR_FETCHING_MARK ==
    <<"E","r","r","o","r"," ","f","e","t","c","h","i","n","g"," ","p","a","g","e",":">>

\* The last element of a non-empty sequence.
Last(s) ==
    s[Len(s)]

\* C1: no list-page URL is fetched twice. A list page is requested only for
\* a URL that is not yet in the visited set, and the URL is in the set from
\* then on; when current_url is already in the set, whichever search
\* produced it, the loop ends with no request and no new record.
C1_NoListPageFetchedTwice ==
    /\ [](\A i, j \in DOMAIN list_fetches :
             list_fetches[i] = list_fetches[j] => i = j)
    /\ [][ list_fetches' # list_fetches =>
             /\ current_url \notin processed_urls
             /\ list_fetches' = Append(list_fetches, current_url)
             /\ current_url \in processed_urls' ]_vars
    /\ [][ (pc = "loop" /\ current_url # None /\ current_url \in processed_urls) =>
             /\ pc' = "save"
             /\ list_fetches' = list_fetches
             /\ detail_fetches' = detail_fetches
             /\ all_attraction_data' = all_attraction_data ]_vars

\* The simplified search of the exception handler led back to a visited
\* page, and the loop stopped there with records collected.
C1_Witness ==
    /\ stop_reason = "visited"
    /\ url_from = "handler"
    /\ Len(list_fetches) = 2
    /\ all_attraction_data # <<>>

\* C2: every record's link starts with BASE_URL, and so does the URL of
\* every detail page requested: an item without a link or with a link to
\* another site is neither scraped nor stored.
C2_LinksOnSite ==
    /\ \A i \in DOMAIN all_attraction_data :
          /\ all_attraction_data[i].link # None
          /\ StartsWith(all_attraction_data[i].link, BASE_URL)
    /\ \A i \in DOMAIN detail_fetches :
          StartsWith(detail_fetches[i], BASE_URL)
    /\ Len(detail_fetches) = Len(all_attraction_data)

\* An item with a link to another site has just been skipped on a page
\* that already produced a record.
C2_Witness ==
    /\ last_item = "skipped_external"
    /\ pc = "sleep"
    /\ all_attraction_data # <<>>

\* C3: every request for a detail page appends exactly one record, for the
\* URL requested; the loop stays on the same list page and goes on with
\* the pause and the next item; if the request failed, description and
\* transport of the record both contain "Error fetching page:".
C3_RecordPerDetailFetch ==
    /\ [](Len(all_attraction_data) = Len(detail_fetches))
    /\ [][ detail_fetches' # detail_fetches =>
             /\ Len(detail_fetches') = Len(detail_fetches) + 1
             /\ Len(all_attraction_data') = Len(all_attraction_data) + 1
             /\ SubSeq(all_attraction_data', 1, Len(all_attraction_data))
                   = all_attraction_data
             /\ Last(all_attraction_data').link = Last(detail_fetches')
             /\ Last(all_attraction_data').page = page_count
             /\ pc' = "sleep"
             /\ <<current_url, soup, item_idx, stop_reason>>'
                   = <<current_url, soup, item_idx, stop_reason>>
             /\ detail_in'.fetch = "error" =>
                   /\ Contains(Last(all_attraction_data').description,
                               ERROR_FETCHING_MARK)
                   /\ Contains(Last(all_attraction_data').transport,
                               ERROR_FETCHING_MARK) ]_vars
    /\ [][ pc = "sleep" => pc' \in {"items", "find_next"} ]_vars

\* After a failed detail request the record is there and the loop is at
\* the next item of the same page.
C3_Witness ==
    /\ pc = "items"
    /\ item_idx = 2
    /\ last_item = "fetched"
    /\ detail_in.fetch = "error"
    /\ all_attraction_data # <<>>
    /\ Contains(Last(all_attraction_data).description, ERROR_FETCHING_MARK)

\* C4: a failed list-page request ends the loop at once: the step that
\* fails leaves the records as they are and leaves the loop, and from
\* then on no list page and no detail page is requested and the records
\* do not change.
C4_ListFetchErrorStops ==
    /\ [][ (stop_reason' = "fetch_error" /\ stop_reason # "fetch_error") =>
             /\ pc' = "save"
             /\ Last(list_fetches') = current_url
             /\ detail_fetches' = detail_fetches
             /\ all_attraction_data' = all_attraction_data ]_vars
    /\ [][ stop_reason = "fetch_error" =>
             /\ pc' \in {"save", "done"}
             /\ stop_reason' = stop_reason
             /\ list_fetches' = list_fetches
             /\ detail_fetches' = detail_fetches
             /\ all_attraction_data' = all_attraction_data ]_vars

\* The second list page failed after the first one produced records.
C4_Witness ==
    /\ stop_reason = "fetch_error"
    /\ pc = "done"
    /\ Len(list_fetches) = 2
    /\ all_attraction_data # <<>>

\* C5 as claimed: once the script is done, the file has been written if
\* and only if there is at least one record.
C5_WrittenIffRecords ==
    /\ save_attempts <= 1
    /\ pc # "done" => json_file = NoFile
    /\ pc = "done" => (json_file.state = "written" <=> all_attraction_data # <<>>)

\* C5, amended: the file is opened at most once, only after the loop has
\* ended, and if and only if there is at least one record; a file exists
\* only if there is a record, and a file written without error holds
\* every record.
C5_SaveAttemptedIffRecords ==
    /\ save_attempts <= 1
    /\ pc # "done" => (json_file = NoFile /\ save_attempts = 0)
    /\ pc = "done" => (save_attempts = 1 <=> all_attraction_data # <<>>)
    /\ json_file # NoFile => all_attraction_data # <<>>
    /\ json_file.state = "written" => json_file.records = Len(all_attraction_data)

\* The loop ended on a visited URL and the records were written.
C5_Witness ==
    /\ pc = "done"
    /\ stop_reason = "visited"
    /\ json_file.state = "written"
    /\ json_file.records >= 2

\* The description when the try statement of scrape_details is left.
RawDescription ==
    ExtractFields(detail_in).description

\* C6 as claimed: a stored description longer than TruncLimit ends with
\* "(truncated)" and is TruncLimit plus the length of that marker long; a
\* description of at most TruncLimit characters is stored as it is.
C6_TruncationLaw ==
    detail_out # NoResult =>
        /\ Len(detail_out.description) > TruncLimit =>
              /\ EndsWith(detail_out.description, TRUNC_MARKER)
              /\ Len(detail_out.description) = TruncLimit + Len(TRUNC_MARKER)
        /\ Len(RawDescription) <= TruncLimit =>
              detail_out.description = RawDescription

\* C6, amended: a description longer than TruncLimit is stored as its
\* first TruncLimit characters without surrounding whitespace, followed by
\* "... (truncated)": it ends with "(truncated)" and is at most TruncLimit
\* plus 15 characters long, exactly that when the cut part neither begins
\* nor ends with whitespace. A description of at most TruncLimit characters
\* is stored without surrounding whitespace, so as it is when it has none.
C6_TruncationAmended ==
    detail_out # NoResult =>
        /\ Len(RawDescription) > TruncLimit =>
              /\ EndsWith(detail_out.description, TRUNC_MARKER)
              /\ EndsWith(detail_out.description, TRUNC_SUFFIX)
              /\ SubSeq(detail_out.description, 1,
                        Len(detail_out.description) - Len(TRUNC_SUFFIX))
                    = Strip(Prefix(RawDescription, TruncLimit))
              /\ Len(detail_out.description) <= TruncLimit + Len(TRUNC_SUFFIX)
              /\ (/\ RawDescription[1] \notin Whitespace
                  /\ RawDescription[TruncLimit] \notin Whitespace)
                    => Len(detail_out.description) = TruncLimit + Len(TRUNC_SUFFIX)
        /\ Len(RawDescription) <= TruncLimit =>
              /\ detail_out.description = Strip(RawDescription)
              /\ ~EndsWith(detail_out.description, TRUNC_SUFFIX)
              /\ (RawDescription = <<>> \/
                    (/\ RawDescription[1] \notin Whitespace
                     /\ Last(RawDescription) \notin Whitespace))
                    => detail_out.description = RawDescription

\* A description was cut where it has whitespace, so that what is stored
\* is shorter than TruncLimit plus the suffix.
C6_Witness ==
    /\ detail_out # NoResult
    /\ Len(RawDescription) > TruncLimit
    /\ EndsWith(detail_out.description, TRUNC_SUFFIX)
    /\ Len(detail_out.description) < TruncLimit + Len(TRUNC_SUFFIX)

\* C7: whatever scrape_details finds, and whether the request or the
\* parsing fails, both fields it returns are strings, never None.
C7_FieldsAreStrings ==
    detail_out # NoResult =>
        /\ detail_out.description # None
        /\ detail_out.transport # None
        /\ \A i \in DOMAIN detail_out.description :
              detail_out.description[i] # "None"
        /\ \A i \in DOMAIN detail_out.transport :
              detail_out.transport[i] # "None"

\* Nothing matched on the page: both fields hold their placeholders.
C7_Witness ==
    /\ detail_in = PlainPage
    /\ detail_out.description = DESC_NOT_FOUND
    /\ detail_out.transport = TRANSPORT_NOT_FOUND

\* C8 as claimed: the script pauses only after an item whose detail page
\* was requested.
C8_PauseOnlyAfterFetch ==
    pc = "sleep" => last_item = "fetched"

\* C8, amended: every item that is handled without an exception, scraped
\* or skipped, is followed by one pause before the next item or the search
\* for the next page.
C8_PauseAfterEveryItem ==
    /\ [][ pc = "items" => pc' \in {"sleep", "handler"} ]_vars
    /\ [][ (pc = "items" /\ last_item' # last_item) => pc' = "sleep" ]_vars
    /\ [][ pc = "sleep" =>
             /\ pauses' = pauses + 1
             /\ pc' \in {"items", "find_next"} ]_vars
    /\ [][ pauses' # pauses => pc = "sleep" ]_vars

\* The script pauses after an item it skipped for want of a link.
C8_Witness ==
    /\ pc = "sleep"
    /\ last_item = "skipped_no_link"

\* C9 as claimed: the document the exception handler searches is the
\* document of the list page that was being handled.
C9_HandlerSearchesSamePage ==
    (pc = "handler" /\ soup # NoSoup) => soup.url = current_url

\* C10: the script always reaches its end; the visited set never shrinks
\* and every iteration that gets past the visited test adds one URL to it.
C10_Termination ==
    /\ <>(pc = "done")
    /\ [][ /\ processed_urls \subseteq processed_urls'
           /\ page_count' # page_count =>
                 /\ page_count' = page_count + 1
                 /\ Cardinality(processed_urls') = Cardinality(processed_urls) + 1
         ]_vars
    /\ [](page_count = Cardinality(processed_urls))

\* Both list pages were visited, the second one reached through the
\* exception handler, and the script is done.
C10_Witness ==
    /\ pc = "done"
    /\ page_count = 2
    /\ url_from = "handler"

====
